---- MODULE Spec2Model ----
(***************************************************************************)
(* A model of AgentForge: the Agent lifecycle and scheduling loop          *)
(* (agentforge/core/agent.py) and the poll algorithms of its tasks         *)
(* (agentforge/tasks/price_tracking.py, arbitrage.py, sentiment.py,        *)
(* contract_monitor.py).                                                   *)
(*                                                                         *)
(* Each component has its own specification over the shared variables:     *)
(*   SpecAgent     start()/stop()/assign_task() of one caller and the      *)
(*                 background thread(s) running Agent._run_loop            *)
(*   SpecAgentConc the same with two callers on one agent                  *)
(*   SpecAgentFair the same under a fair scheduler                         *)
(*   SpecPrice     PriceTrackingTask.execute                               *)
(*   SpecArb       ArbitrageTask.execute                                   *)
(*   SpecSentiment SentimentAnalysisTask.execute                           *)
(*   SpecContract  ContractMonitorTask.execute / _process_events           *)
(* Decimal prices are modelled as integers at a fixed scale (exact         *)
(* arithmetic); an Optional value is the empty or the one-element sequence.*)
(***************************************************************************)
EXTENDS Integers, Sequences, FiniteSets, TLC

VARIABLES
    \* ---- Agent (agent.py) ----
    tasks,          \* self.tasks: the list of assigned tasks (task ids)
    running,        \* self._running
    thread,         \* self._thread: 0 is None, else the id of a Thread object
    tstate,         \* per Thread object: "none" (not created), "new" (created,
                    \* not started), "check" | "for" | "exec" | "sleep" (position
                    \* in _run_loop), "dead" (run() has returned)
    tidx,           \* per Thread object: tasks already iterated in this pass
    poll_result,    \* outcome of the last task.execute() of the loop
    callers,        \* the threads that call start()/stop() on the agent
    pc,             \* per caller: "idle" or the line of start()/stop() it is at
    jt,             \* per caller: the Thread object whose join() it called
    nstarts,        \* number of start() calls made so far (bounded)
    hist,           \* history: the last calls that returned, oldest first
    quiet,          \* history: a stop() has returned and no start() was called since
    wasRunning,     \* history, per caller: the agent ran when its stop() was called
    polled,         \* history, per Thread object: the tasks whose execute() the
                    \* current pass of its loop has called, in call order
    \* ---- PriceTrackingTask (price_tracking.py) ----
    threshold_price,    \* self.threshold_price
    alert_on,           \* self.alert_on: "above" or "below"
    last_price,         \* self.last_price: <<>> is None, <<p>> a price
    price_log,          \* history: one record per execute() call, oldest first
    \* ---- ArbitrageTask (arbitrage.py) ----
    min_profit_threshold,   \* self.min_profit_threshold, in tenths of a percent
    arb_log,            \* history: one record per execute() call, oldest first
    \* ---- SentimentAnalysisTask (sentiment.py, utils/twitter.py) ----
    sentiment_threshold,    \* self.sentiment_threshold, in hundredths
    last_sentiment,         \* self.last_sentiment: <<>> is None, <<s>> a score
    sentiment_log,      \* history: one record per execute() call, oldest first
    \* ---- ContractMonitorTask (contract_monitor.py) ----
    blocks_to_scan,         \* self.blocks_to_scan
    last_processed_block,   \* self.last_processed_block
    processed_txs,          \* self.processed_txs
    cpc,                    \* "idle", or "events": execute() is in the loop of
                            \* _process_events
    end_block,              \* current_block of the execute() call in progress
    pending,                \* the fetched events the loop has not reached yet
    initialized,            \* history: line 48 has set last_processed_block
    since,                  \* history, per hash: <<S>> when the hash was reported and
                            \* S, the other hashes recorded since, has fewer than
                            \* TxCapacity elements; <<>> otherwise
    last_report,            \* history: <<>> or <<r>>, r the last event alert, with
                            \* r.again: its hash was within its retention window
    evicted,                \* history: line 105 has dropped a hash
    polls,                  \* history: which execute() call last read the block
                            \*   number: "none", "first", "second" or "later"
    first_height,           \* history: <<>>, or <<h>> the height the first poll read
    last_poll,              \* history: <<>>, or <<p>> what the latest poll read and did
    scan_error,             \* history: what failed in the latest poll's scan: "none",
                            \*   "fetch" (the event filter) or "receipt"
    regular,                \* history: so far no poll read a lower height than the
                            \*   one before or one more than blocks_to_scan higher,
                            \*   and no event or receipt fetch failed
    scan_count,             \* history, per block: in how many scanned ranges it was
                            \*   (2: two or more), kept while `regular`, else all 0
    unreported              \* history: the hashes, not in processed_txs, of the
                            \*   events the latest scan fetched and never reached
                            \*   (other than the hash whose receipt fetch raised)

agentVars == <<tasks, running, thread, tstate, tidx, poll_result, callers, pc, jt,
               nstarts, hist, quiet, wasRunning, polled>>

priceVars == <<threshold_price, alert_on, last_price, price_log>>

\* The variables of the tasks, which the Agent's own operations leave alone.
arbVars == <<min_profit_threshold, arb_log>>

contractVars == <<blocks_to_scan, last_processed_block, processed_txs, cpc, end_block,
                  pending, initialized, since, last_report, evicted,
                  polls, first_height, last_poll, scan_error,
                  unreported, regular, scan_count>>

sentimentVars == <<sentiment_threshold, last_sentiment, sentiment_log>>

taskVars == <<priceVars, arbVars, sentimentVars, contractVars>>

vars == <<agentVars, taskVars>>

\* ------------------------------------------------------------------ bounds
MaxStarts == 3      \* start() calls per behaviour (one Thread object each at most)
MaxTasks == 2       \* tasks assigned per behaviour

\* ------------------------------------------------------------------ Agent
Callers == {"c1", "c2"}
Threads == 1..MaxStarts

\* The Thread objects whose _run_loop is executing.
LiveLoops == {t \in Threads : tstate[t] \in {"check", "for", "exec", "sleep"}}

\* The last calls that returned, at most two of them.
Remember(h, call) == IF Len(h) < 2 THEN Append(h, call) ELSE <<h[2], call>>

\* Agent.__init__
AgentInit(cs) ==
    /\ tasks = <<>>
    /\ running = FALSE
    /\ thread = 0
    /\ tstate = [t \in Threads |-> "none"]
    /\ tidx = [t \in Threads |-> 0]
    /\ poll_result = "none"
    /\ callers = cs
    /\ pc = [c \in Callers |-> "idle"]
    /\ jt = [c \in Callers |-> 0]
    /\ nstarts = 0
    /\ hist = <<>>
    /\ quiet = FALSE
    /\ wasRunning = [c \in Callers |-> FALSE]
    /\ polled = [t \in Threads |-> <<>>]

\* An assign_task that puts the task at the head of the list.
assign_task_prepend(c) ==
    /\ c \in callers
    /\ pc[c] = "idle"
    /\ Len(tasks) < MaxTasks
    /\ tasks' = <<Len(tasks) + 1>> \o tasks
    /\ UNCHANGED taskVars
    /\ UNCHANGED <<running, thread, tstate, tidx, poll_result, callers, pc, jt,
                   nstarts, hist, quiet, wasRunning, polled>>

\* Agent.assign_task: self.tasks.append(task)
assign_task(c) ==
    /\ c \in callers
    /\ pc[c] = "idle"
    /\ Len(tasks) < MaxTasks
    /\ tasks' = Append(tasks, Len(tasks) + 1)
    /\ UNCHANGED taskVars
    /\ UNCHANGED <<running, thread, tstate, tidx, poll_result, callers, pc, jt,
                   nstarts, hist, quiet, wasRunning, polled>>

\* A caller invokes start().
start_call(c) ==
    /\ c \in callers
    /\ pc[c] = "idle"
    /\ nstarts < MaxStarts
    /\ nstarts' = nstarts + 1
    /\ pc' = [pc EXCEPT ![c] = "start_33"]
    /\ quiet' = FALSE
    /\ UNCHANGED taskVars
    /\ UNCHANGED <<tasks, running, thread, tstate, tidx, poll_result, callers, jt,
                   hist, wasRunning, polled>>

\* A start() without the check of line 33: it always spawns a loop.
start_33_unguarded(c) ==
    /\ pc[c] = "start_33"
    /\ pc' = [pc EXCEPT ![c] = "start_37"]
    /\ UNCHANGED taskVars
    /\ UNCHANGED <<tasks, running, thread, tstate, tidx, poll_result, callers, jt,
                   nstarts, hist, quiet, wasRunning, polled>>

\* start(), line 33: if self._running: warn and return
start_33(c) ==
    /\ pc[c] = "start_33"
    /\ IF running
          THEN /\ pc' = [pc EXCEPT ![c] = "idle"]
               /\ hist' = Remember(hist, "start")
          ELSE /\ pc' = [pc EXCEPT ![c] = "start_37"]
               /\ hist' = hist
    /\ UNCHANGED taskVars
    /\ UNCHANGED <<tasks, running, thread, tstate, tidx, poll_result, callers, jt,
                   nstarts, quiet, wasRunning, polled>>

\* start(), line 37: self._running = True
start_37(c) ==
    /\ pc[c] = "start_37"
    /\ running' = TRUE
    /\ pc' = [pc EXCEPT ![c] = "start_38"]
    /\ UNCHANGED taskVars
    /\ UNCHANGED <<tasks, thread, tstate, tidx, poll_result, callers, jt,
                   nstarts, hist, quiet, wasRunning, polled>>

\* The Thread object a start() call creates: the first one not created yet.
NewThread == CHOOSE t \in Threads : tstate[t] = "none" /\ \A u \in 1..(t - 1) : tstate[u] # "none"

\* start(), line 38: self._thread = Thread(target=self._run_loop, daemon=True)
start_38(c) ==
    /\ pc[c] = "start_38"
    /\ thread' = NewThread
    /\ tstate' = [tstate EXCEPT ![NewThread] = "new"]
    /\ pc' = [pc EXCEPT ![c] = "start_39"]
    /\ UNCHANGED taskVars
    /\ UNCHANGED <<tasks, running, tidx, poll_result, callers, jt,
                   nstarts, hist, quiet, wasRunning, polled>>

\* start(), line 39: self._thread.start(). Thread.start() raises RuntimeError
\* (and start() ends without having returned) when the Thread object it reads
\* from self._thread was started before.
start_39(c) ==
    /\ pc[c] = "start_39"
    /\ IF tstate[thread] = "new"
          THEN /\ tstate' = [tstate EXCEPT ![thread] = "check"]
               /\ hist' = Remember(hist, "start")
          ELSE /\ tstate' = tstate
               /\ hist' = hist
    /\ pc' = [pc EXCEPT ![c] = "idle"]
    /\ UNCHANGED taskVars
    /\ UNCHANGED <<tasks, running, thread, tidx, poll_result, callers, jt,
                   nstarts, quiet, wasRunning, polled>>

\* A caller invokes stop().
stop_call(c) ==
    /\ c \in callers
    /\ pc[c] = "idle"
    /\ pc' = [pc EXCEPT ![c] = "stop_44"]
    /\ wasRunning' = [wasRunning EXCEPT ![c] = running \/ LiveLoops # {}]
    /\ UNCHANGED taskVars
    /\ UNCHANGED <<tasks, running, thread, tstate, tidx, poll_result, callers, jt,
                   nstarts, hist, quiet, polled>>

\* A stop() that toggles the flag instead of clearing it.
stop_44_toggle(c) ==
    /\ pc[c] = "stop_44"
    /\ running' = ~running
    /\ pc' = [pc EXCEPT ![c] = "stop_45"]
    /\ UNCHANGED taskVars
    /\ UNCHANGED <<tasks, thread, tstate, tidx, poll_result, callers, jt,
                   nstarts, hist, quiet, wasRunning, polled>>

\* stop(), line 44: self._running = False
stop_44(c) ==
    /\ pc[c] = "stop_44"
    /\ running' = FALSE
    /\ pc' = [pc EXCEPT ![c] = "stop_45"]
    /\ UNCHANGED taskVars
    /\ UNCHANGED <<tasks, thread, tstate, tidx, poll_result, callers, jt,
                   nstarts, hist, quiet, wasRunning, polled>>

\* stop(), line 45: if self._thread: ... else the call returns
stop_45(c) ==
    /\ pc[c] = "stop_45"
    /\ IF thread = 0
          THEN /\ pc' = [pc EXCEPT ![c] = "idle"]
               /\ hist' = Remember(hist, "stop")
               /\ quiet' = TRUE
          ELSE /\ pc' = [pc EXCEPT ![c] = "stop_46"]
               /\ UNCHANGED <<hist, quiet>>
    /\ UNCHANGED taskVars
    /\ UNCHANGED <<tasks, running, thread, tstate, tidx, poll_result, callers, jt,
                   nstarts, wasRunning, polled>>

\* stop(), line 46: self._thread.join() is called on the Thread object that
\* self._thread holds now.
stop_46(c) ==
    /\ pc[c] = "stop_46"
    /\ jt' = [jt EXCEPT ![c] = thread]
    /\ pc' = [pc EXCEPT ![c] = "join"]
    /\ UNCHANGED taskVars
    /\ UNCHANGED <<tasks, running, thread, tstate, tidx, poll_result, callers,
                   nstarts, hist, quiet, wasRunning, polled>>

\* A stop() that does not wait for the loop: join() returns at once.
join_nowait(c) ==
    /\ pc[c] = "join"
    /\ tstate[jt[c]] # "none"
    /\ pc' = [pc EXCEPT ![c] = "idle"]
    /\ hist' = Remember(hist, "stop")
    /\ quiet' = TRUE
    /\ UNCHANGED taskVars
    /\ UNCHANGED <<tasks, running, thread, tstate, tidx, poll_result, callers, jt,
                   nstarts, wasRunning, polled>>

\* Thread.join() blocks until the Thread's run() has returned; then stop()
\* logs and returns. On a Thread object that was not started join() raises
\* RuntimeError, and stop() ends without having returned.
join(c) ==
    /\ pc[c] = "join"
    /\ tstate[jt[c]] \in {"new", "dead"}
    /\ pc' = [pc EXCEPT ![c] = "idle"]
    /\ IF tstate[jt[c]] = "dead"
          THEN /\ hist' = Remember(hist, "stop")
               /\ quiet' = TRUE
          ELSE UNCHANGED <<hist, quiet>>
    /\ UNCHANGED taskVars
    /\ UNCHANGED <<tasks, running, thread, tstate, tidx, poll_result, callers, jt,
                   nstarts, wasRunning, polled>>

\* _run_loop, line 51: while self._running
loop_while(t) ==
    /\ tstate[t] = "check"
    /\ tstate' = [tstate EXCEPT ![t] = IF running THEN "for" ELSE "dead"]
    /\ tidx' = [tidx EXCEPT ![t] = 0]
    /\ polled' = [polled EXCEPT ![t] = <<>>]
    /\ UNCHANGED taskVars
    /\ UNCHANGED <<tasks, running, thread, poll_result, callers, pc, jt,
                   nstarts, hist, quiet, wasRunning>>

\* _run_loop, line 52: for task in self.tasks (the list iterator reads the
\* list's current length at every step)
loop_for(t) ==
    /\ tstate[t] = "for"
    /\ tstate' = [tstate EXCEPT ![t] = IF tidx[t] < Len(tasks) THEN "exec" ELSE "sleep"]
    /\ UNCHANGED taskVars
    /\ UNCHANGED <<tasks, running, thread, tidx, poll_result, callers, pc, jt,
                   nstarts, hist, quiet, wasRunning, polled>>

\* A loop without the except of line 55: a raising task ends the thread.
loop_execute_fatal(t) ==
    /\ tstate[t] = "exec"
    /\ \E raised \in BOOLEAN :
          /\ poll_result' = IF raised THEN "error" ELSE "ok"
          /\ tstate' = [tstate EXCEPT ![t] = IF raised THEN "dead" ELSE "for"]
    /\ tidx' = [tidx EXCEPT ![t] = tidx[t] + 1]
    /\ polled' = [polled EXCEPT ![t] = Append(polled[t], tasks[tidx[t] + 1])]
    /\ UNCHANGED taskVars
    /\ UNCHANGED <<tasks, running, thread, callers, pc, jt,
                   nstarts, hist, quiet, wasRunning>>

\* _run_loop, lines 53-56: task.execute() of the task the iterator gave
\* returns or raises; an Exception is caught and logged, and the for loop
\* goes on.
loop_execute(t) ==
    /\ tstate[t] = "exec"
    /\ \E raised \in BOOLEAN :
          poll_result' = IF raised THEN "error" ELSE "ok"
    /\ tidx' = [tidx EXCEPT ![t] = tidx[t] + 1]
    /\ polled' = [polled EXCEPT ![t] = Append(polled[t], tasks[tidx[t] + 1])]
    /\ tstate' = [tstate EXCEPT ![t] = "for"]
    /\ UNCHANGED taskVars
    /\ UNCHANGED <<tasks, running, thread, callers, pc, jt,
                   nstarts, hist, quiet, wasRunning>>

\* _run_loop, line 57: time.sleep(1)
loop_sleep(t) ==
    /\ tstate[t] = "sleep"
    /\ tstate' = [tstate EXCEPT ![t] = "check"]
    /\ UNCHANGED taskVars
    /\ UNCHANGED <<tasks, running, thread, tidx, poll_result, callers, pc, jt,
                   nstarts, hist, quiet, wasRunning, polled>>

\* ------------------------------------------------------- PriceTrackingTask
MaxPolls == 3       \* execute() calls per behaviour

\* Prices and thresholds (Decimal values at a fixed scale).
Prices == {0, 1900, 1999, 2000, 2001}
Thresholds == {0, 2000}

\* What _get_token_price gives: <<>> when the provider raises, else <<price>>.
FetchResults == {<<>>} \cup {<<p>> : p \in Prices}

Abs(x) == IF x < 0 THEN -x ELSE x

\* PriceTrackingTask.__init__
PriceInit ==
    /\ threshold_price \in Thresholds
    /\ alert_on \in {"above", "below"}
    /\ last_price = <<>>
    /\ price_log = <<>>

\* The task as the other specifications hold it: constructed, never polled.
PriceIdle ==
    /\ threshold_price = 2000
    /\ alert_on = "above"
    /\ last_price = <<>>
    /\ price_log = <<>>

\* Line 33 raises when self.last_price is zero: Decimal division by zero
\* (DivisionByZero, or InvalidOperation for 0/0) is trapped by the default context.
pct_change_raises(last) == last # <<>> /\ last[1] = 0

\* Lines 32-34: pct_change = abs(current - last) / last * 100 > 1.0, for last > 0.
significant_change(current, last) ==
    last # <<>> /\ last[1] > 0 /\ Abs(current - last[1]) * 100 > last[1]

\* An alert condition that also fires at the threshold.
alert_condition_nonstrict(current, threshold, dir) ==
    IF dir = "above" THEN current >= threshold ELSE current <= threshold

\* Lines 43-47: the alert condition.
alert_condition(current, threshold, dir) ==
    IF dir = "above" THEN current > threshold ELSE current < threshold

\* An except branch that also forgets the stored price.
price_on_error_reset(last) == [last |-> <<>>, outcome |-> "Error", note |-> FALSE]

\* Lines 55-56: the except branch logs the error; self.last_price is as it was.
price_on_error(last) == [last |-> last, outcome |-> "Error", note |-> FALSE]

\* PriceTrackingTask.execute on stored price `last` and fetch result `r`:
\* the stored price after it, the outcome, and whether the price change was logged.
PriceExecute(last, r, threshold, dir) ==
    IF r = <<>> THEN price_on_error(last)
    ELSE IF pct_change_raises(last) THEN price_on_error(last)
    ELSE [last |-> r,
          outcome |-> IF alert_condition(r[1], threshold, dir) THEN "Alert" ELSE "NoSignal",
          note |-> significant_change(r[1], last)]

\* One call of PriceTrackingTask.execute.
price_execute ==
    /\ Len(price_log) < MaxPolls
    /\ \E r \in FetchResults :
          LET res == PriceExecute(last_price, r, threshold_price, alert_on)
          IN /\ last_price' = res.last
             /\ price_log' = Append(price_log,
                    [fetched |-> r, prev |-> last_price, outcome |-> res.outcome,
                     note |-> res.note])
    /\ UNCHANGED <<threshold_price, alert_on>>
    /\ UNCHANGED <<agentVars, arbVars, sentimentVars, contractVars>>

\* ----------------------------------------------------------- ArbitrageTask
MaxArbPolls == 2    \* execute() calls per behaviour

\* Prices of the two routes (Decimal values at a fixed scale) and thresholds
\* in tenths of a percent (5 is 0.5%).
ArbPrices == {0, 995, 1000, 1005, 1006}
ArbThresholds == {0, 5, 10, 2000}

\* What a route's price fetch gives: <<>> when it raises, else <<price>>.
ArbFetchResults == {<<>>} \cup {<<p>> : p \in ArbPrices}

\* ArbitrageTask.__init__ (the task keeps no state between polls)
ArbInit ==
    /\ min_profit_threshold \in ArbThresholds
    /\ arb_log = <<>>

\* The task as the other specifications hold it: constructed, never polled.
ArbIdle ==
    /\ min_profit_threshold = 5
    /\ arb_log = <<>>

\* Line 44 raises when avg_price is zero (both prices zero): Decimal 0/0 is
\* trapped by the default context.
diff_percentage_raises(uni, sushi) == uni + sushi = 0

\* A threshold test that does not fire at the threshold itself.
exceeds_threshold_strict(uni, sushi, threshold) ==
    Abs(uni - sushi) * 2000 > threshold * (uni + sushi)

\* Lines 42-44 and 54: diff_percentage = |uni - sushi| / ((uni + sushi) / 2) * 100
\* >= threshold, with the threshold in tenths of a percent, for uni + sushi > 0.
exceeds_threshold(uni, sushi, threshold) ==
    Abs(uni - sushi) * 2000 >= threshold * (uni + sushi)

\* Lines 55-56: the route to buy on and the route to sell on.
buy_dex(uni, sushi) == IF sushi < uni THEN "Sushiswap" ELSE "Uniswap"
sell_dex(uni, sushi) == IF buy_dex(uni, sushi) = "Sushiswap" THEN "Uniswap" ELSE "Sushiswap"

\* An execute whose price fetches give 0 instead of raising.
ArbExecute_zero_on_failure(u, s, threshold) ==
    LET uni == IF u = <<>> THEN 0 ELSE u[1]
        sushi == IF s = <<>> THEN 0 ELSE s[1]
    IN IF diff_percentage_raises(uni, sushi)
           THEN [uni |-> u, sushi |-> s, outcome |-> "Error", buy |-> "", sell |-> ""]
       ELSE IF exceeds_threshold(uni, sushi, threshold)
           THEN [uni |-> u, sushi |-> s, outcome |-> "Alert",
                 buy |-> buy_dex(uni, sushi), sell |-> sell_dex(uni, sushi)]
       ELSE [uni |-> u, sushi |-> s, outcome |-> "NoSignal", buy |-> "", sell |-> ""]

\* ArbitrageTask.execute on the fetch results of the two routes. Uniswap is
\* fetched first; when it raises, Sushiswap is not fetched.
ArbExecute(u, s, threshold) ==
    IF u = <<>> THEN [uni |-> <<>>, sushi |-> <<>>, outcome |-> "Error", buy |-> "", sell |-> ""]
    ELSE IF s = <<>> \/ diff_percentage_raises(u[1], s[1])
        THEN [uni |-> u, sushi |-> s, outcome |-> "Error", buy |-> "", sell |-> ""]
    ELSE IF exceeds_threshold(u[1], s[1], threshold)
        THEN [uni |-> u, sushi |-> s, outcome |-> "Alert",
              buy |-> buy_dex(u[1], s[1]), sell |-> sell_dex(u[1], s[1])]
    ELSE [uni |-> u, sushi |-> s, outcome |-> "NoSignal", buy |-> "", sell |-> ""]

\* One call of ArbitrageTask.execute.
arb_execute ==
    /\ Len(arb_log) < MaxArbPolls
    /\ \E u \in ArbFetchResults, s \in ArbFetchResults :
          arb_log' = Append(arb_log, ArbExecute(u, s, min_profit_threshold))
    /\ UNCHANGED min_profit_threshold
    /\ UNCHANGED <<agentVars, priceVars, sentimentVars, contractVars>>

\* --------------------------------------------------- SentimentAnalysisTask
MaxSentimentPolls == 3  \* execute() calls per behaviour

\* Average engagements (likes + retweets per tweet) of a non-empty search
\* result; the score is avg_engagement / 100, kept here in hundredths.
Engagements == {0, 10, 50}
SentimentThresholds == {0, 30, 40}

\* What the HTTP request of search_recent_tweets meets: a transport or API
\* error, no tweet, tweets, or tweets without their public_metrics.
TwitterResponses ==
    {[kind |-> k, avg |-> 0] : k \in {"error", "empty", "malformed"}}
        \cup {[kind |-> "tweets", avg |-> e] : e \in Engagements}

\* SentimentAnalysisTask.__init__
SentimentInit ==
    /\ sentiment_threshold \in SentimentThresholds
    /\ last_sentiment = <<>>
    /\ sentiment_log = <<>>

\* The task as the other specifications hold it: constructed, never polled.
SentimentIdle ==
    /\ sentiment_threshold = 30
    /\ last_sentiment = <<>>
    /\ sentiment_log = <<>>

\* TwitterClient.search_recent_tweets, lines 58-67: any exception of the
\* request is logged and an empty list is returned.
search_recent_tweets(resp) ==
    IF resp.kind = "error" THEN [kind |-> "empty", avg |-> 0] ELSE resp

\* TwitterClient.get_crypto_sentiment, lines 88-118: the sentiment_score of
\* the metrics, <<score>>, or <<>> when summing the metrics raises (KeyError).
get_crypto_sentiment(resp) ==
    LET tweets == search_recent_tweets(resp)
    IN IF tweets.kind = "empty" THEN <<0>>
       ELSE IF tweets.kind = "malformed" THEN <<>>
       ELSE <<tweets.avg>>

\* A store that keeps the old score unless an alert fired.
stored_sentiment_on_alert(last, current, alerted) == IF alerted THEN <<current>> ELSE last

\* Line 56: self.last_sentiment = current_sentiment
stored_sentiment(last, current, alerted) == <<current>>

\* Line 48: the direction of the shift.
shift_direction(sentiment_change) == IF sentiment_change > 0 THEN "positive" ELSE "negative"

\* SentimentAnalysisTask.execute on stored score `last` and metrics `m`.
SentimentExecute(last, m, threshold) ==
    IF m = <<>> THEN [last |-> last, outcome |-> "Error", direction |-> ""]
    ELSE LET current == m[1]
             alerted == last # <<>> /\ Abs(current - last[1]) >= threshold
         IN [last |-> stored_sentiment(last, current, alerted),
             outcome |-> IF alerted THEN "Alert" ELSE "NoSignal",
             direction |-> IF alerted THEN shift_direction(current - last[1]) ELSE ""]

\* One call of SentimentAnalysisTask.execute.
sentiment_execute ==
    /\ Len(sentiment_log) < MaxSentimentPolls
    /\ \E resp \in TwitterResponses :
          LET m == get_crypto_sentiment(resp)
              res == SentimentExecute(last_sentiment, m, sentiment_threshold)
          IN /\ last_sentiment' = res.last
             /\ sentiment_log' = Append(sentiment_log,
                    [response |-> resp.kind, score |-> m, prev |-> last_sentiment,
                     outcome |-> res.outcome, direction |-> res.direction])
    /\ UNCHANGED sentiment_threshold
    /\ UNCHANGED <<agentVars, priceVars, arbVars, contractVars>>

\* ----------------------------------------------------- ContractMonitorTask
MaxHeight == 3      \* block numbers the provider reports: 0..MaxHeight
MaxEvents == 2      \* events one get_all_entries() call returns
TxCapacity == 2     \* capacity of processed_txs: 1000 at lines 104-105, scaled down

Heights == 0..MaxHeight
\* The transaction hashes: one more than the set can hold.
Hashes == 1..(TxCapacity + 1)
Lookbacks == {1, 2}

\* Lines 12-14: the event signatures the task knows.
KnownEvents == {"Transfer", "Approval", "Swap"}

\* The events_to_monitor the task is configured with.
events_to_monitor == {"Transfer", "Deposit"}

\* Lines 34-38: self.monitored_events
monitored_events == KnownEvents \cap events_to_monitor

\* The signature of the event the contract emitted in transaction tx: an
\* Approval in the first transaction, a Transfer in the others.
event_signature(tx) == IF tx = 1 THEN "Approval" ELSE "Transfer"

\* The sequences over S of length at most n.
SeqsUpTo(S, n) == UNION {[1..k -> S] : k \in 0..n}

\* Lines 78-85: the filter is given fromBlock, toBlock and address and no
\* topics, so get_all_entries() returns the events of the contract in the
\* range whatever their signature: any sequence of its transactions.
get_all_entries == SeqsUpTo(Hashes, MaxEvents)

Max(a, b) == IF a >= b THEN a ELSE b

\* ContractMonitorTask.__init__
ContractInit ==
    /\ blocks_to_scan \in Lookbacks
    /\ last_processed_block = 0
    /\ processed_txs = {}
    /\ cpc = "idle"
    /\ end_block = 0
    /\ pending = <<>>
    /\ initialized = FALSE
    /\ since = [h \in Hashes |-> <<>>]
    /\ last_report = <<>>
    /\ evicted = FALSE
    /\ polls = "none"
    /\ first_height = <<>>
    /\ last_poll = <<>>
    /\ scan_error = "none"
    /\ regular = TRUE
    /\ scan_count = [b \in Heights |-> 0]
    /\ unreported = {}

\* The task as the other specifications hold it: constructed, never polled.
ContractIdle ==
    /\ blocks_to_scan = 2
    /\ last_processed_block = 0
    /\ processed_txs = {}
    /\ cpc = "idle"
    /\ end_block = 0
    /\ pending = <<>>
    /\ initialized = FALSE
    /\ since = [h \in Hashes |-> <<>>]
    /\ last_report = <<>>
    /\ evicted = FALSE
    /\ polls = "none"
    /\ first_height = <<>>
    /\ last_poll = <<>>
    /\ scan_error = "none"
    /\ regular = TRUE
    /\ scan_count = [b \in Heights |-> 0]
    /\ unreported = {}

\* Lines 47-48: the first-run initialization, keyed on the value 0.
initial_block(last, current_block) == IF last = 0 THEN current_block - 1 ELSE last

\* A first block that ignores the lookback.
start_block_unclamped(last, current_block, lookback) == last + 1

\* Lines 51-54: the first block of the range to scan.
start_block(last, current_block, lookback) == Max(last + 1, current_block - lookback)

\* A trimming that keeps every hash.
trim_none(txs) == {txs}

\* Lines 104-105: set(list(self.processed_txs)[-1000:]) keeps the last
\* TxCapacity hashes in the set's iteration order, which is the order of the
\* strings' hash values (randomized per process), not the order of insertion:
\* any TxCapacity of the hashes may be the ones kept.
trim(txs) ==
    IF Cardinality(txs) > TxCapacity
        THEN {kept \in SUBSET txs : Cardinality(kept) = TxCapacity}
        ELSE {txs}

\* The retention windows after hash tx was recorded (line 101), and reported
\* when `alerted`.
Recorded(tx, alerted) ==
    [h \in Hashes |->
        IF h = tx THEN (IF alerted THEN <<{}>> ELSE since[h])
        ELSE IF since[h] = <<>> THEN <<>>
        ELSE IF Cardinality(since[h][1] \cup {tx}) >= TxCapacity THEN <<>>
        ELSE <<since[h][1] \cup {tx}>>]

\* The run stays regular with a poll that reads current_block.
Regular(current_block, error) ==
    /\ regular
    /\ error = "none"
    /\ last_poll # <<>> =>
           /\ current_block >= last_poll[1].height
           /\ current_block - last_poll[1].height <= blocks_to_scan

\* scan_count after the blocks of `scan` were passed to _process_events.
Counted(scan) ==
    [b \in Heights |->
        IF scan # <<>> /\ scan[1] <= b /\ b <= scan[2] /\ scan_count[b] < 2
            THEN scan_count[b] + 1 ELSE scan_count[b]]

\* Lines 44-65 as the history sees them: the poll read current_block with
\* last_processed_block as it was on entry, and scanned the blocks of `scan`
\* (<<>>, or <<start_block, current_block>> as passed to _process_events);
\* `error` is "fetch" when lines 78-85 raised.
Polled(current_block, scan, error) ==
    /\ polls' = CASE polls = "none" -> "first"
                   [] polls = "first" -> "second"
                   [] OTHER -> "later"
    /\ first_height' = IF polls = "none" THEN <<current_block>> ELSE first_height
    /\ last_poll' = <<[height |-> current_block, before |-> last_processed_block,
                       scan |-> scan]>>
    /\ scan_error' = error
    /\ unreported' = {}
    /\ regular' = Regular(current_block, error)
    /\ scan_count' = IF Regular(current_block, error)
                        THEN Counted(scan) ELSE [b \in Heights |-> 0]

\* ContractMonitorTask.execute, lines 42-57 and 70-71: the block number read
\* raises (nothing changes), or the range is empty and the call returns.
execute_no_scan ==
    /\ cpc = "idle"
    /\ \/ UNCHANGED <<last_processed_block, initialized, polls, first_height, last_poll,
                      scan_error, unreported, regular, scan_count>>
       \/ \E current_block \in Heights :
             LET last == initial_block(last_processed_block, current_block)
             IN /\ start_block(last, current_block, blocks_to_scan) >= current_block
                /\ last_processed_block' = last
                /\ initialized' = (initialized \/ last_processed_block = 0)
                /\ Polled(current_block, <<>>, "none")
    /\ UNCHANGED <<blocks_to_scan, processed_txs, cpc, end_block, pending, since,
                   last_report, evicted>>
    /\ UNCHANGED <<agentVars, priceVars, arbVars, sentimentVars>>

\* execute, lines 42-65, and _process_events, lines 76-85: the range is not
\* empty and the event filter returns its entries.
execute_scan ==
    /\ cpc = "idle"
    /\ \E current_block \in Heights, events \in get_all_entries :
          LET last == initial_block(last_processed_block, current_block)
          IN /\ start_block(last, current_block, blocks_to_scan) < current_block
             /\ last_processed_block' = last
             /\ initialized' = (initialized \/ last_processed_block = 0)
             /\ Polled(current_block,
                       <<start_block(last, current_block, blocks_to_scan), current_block>>,
                       "none")
             /\ end_block' = current_block
             /\ pending' = events
             /\ cpc' = "events"
    /\ UNCHANGED <<blocks_to_scan, processed_txs, since, last_report, evicted>>
    /\ UNCHANGED <<agentVars, priceVars, arbVars, sentimentVars>>

\* execute, lines 42-68, and _process_events, lines 76-85 and 107-108: the
\* range is not empty and creating or reading the event filter raises;
\* _process_events logs the error and returns, and execute goes on to line 68.
execute_scan_fetch_fails ==
    /\ cpc = "idle"
    /\ \E current_block \in Heights :
          LET last == initial_block(last_processed_block, current_block)
          IN /\ start_block(last, current_block, blocks_to_scan) < current_block
             /\ last_processed_block' = current_block
             /\ initialized' = (initialized \/ last_processed_block = 0)
             /\ Polled(current_block,
                       <<start_block(last, current_block, blocks_to_scan), current_block>>,
                       "fetch")
    /\ UNCHANGED <<blocks_to_scan, processed_txs, cpc, end_block, pending, since,
                   last_report, evicted>>
    /\ UNCHANGED <<agentVars, priceVars, arbVars, sentimentVars>>

\* _process_events, lines 87-92: the event's transaction was processed before.
event_skip ==
    /\ cpc = "events"
    /\ pending # <<>>
    /\ Head(pending) \in processed_txs
    /\ pending' = Tail(pending)
    /\ UNCHANGED <<blocks_to_scan, last_processed_block, processed_txs, cpc, end_block,
                   initialized, since, last_report, evicted, polls, first_height,
                   last_poll, scan_error, unreported, regular,
                   scan_count>>
    /\ UNCHANGED <<agentVars, priceVars, arbVars, sentimentVars>>

\* _process_events, lines 95 and 107-108: get_transaction_receipt raises; the
\* except around the whole loop logs the error and the rest of the batch is
\* not processed.
event_receipt_fails ==
    /\ cpc = "events"
    /\ pending # <<>>
    /\ Head(pending) \notin processed_txs
    /\ pending' = <<>>
    /\ scan_error' = "receipt"
    /\ regular' = FALSE
    /\ scan_count' = [b \in Heights |-> 0]
    /\ unreported' = {Tail(pending)[i] : i \in 1..(Len(pending) - 1)}
                          \ (processed_txs \cup {Head(pending)})
    /\ UNCHANGED <<blocks_to_scan, last_processed_block, processed_txs, cpc, end_block,
                   initialized, since, last_report, evicted, polls, first_height,
                   last_poll>>
    /\ UNCHANGED <<agentVars, priceVars, arbVars, sentimentVars>>

\* _process_events, lines 95-105, with _handle_event, lines 110-130: the
\* event, whatever its signature, is reported (or _handle_event raises before
\* its log call and logs the error itself), its hash is recorded and the set
\* is trimmed.
event_process ==
    /\ cpc = "events"
    /\ pending # <<>>
    /\ Head(pending) \notin processed_txs
    /\ \E alerted \in BOOLEAN, kept \in trim(processed_txs \cup {Head(pending)}) :
          /\ processed_txs' = kept
          /\ evicted' = (evicted \/ kept # processed_txs \cup {Head(pending)})
          /\ since' = Recorded(Head(pending), alerted)
          /\ last_report' =
                IF alerted
                    THEN <<[tx |-> Head(pending), again |-> since[Head(pending)] # <<>>]>>
                    ELSE last_report
    /\ pending' = Tail(pending)
    /\ UNCHANGED <<blocks_to_scan, last_processed_block, cpc, end_block, initialized,
                   polls, first_height, last_poll, scan_error, unreported,
                   regular, scan_count>>
    /\ UNCHANGED <<agentVars, priceVars, arbVars, sentimentVars>>

\* A finish that keeps the watermark when the batch was abandoned.
execute_finish_on_success ==
    /\ cpc = "events"
    /\ pending = <<>>
    /\ last_processed_block' = IF scan_error = "none" THEN end_block ELSE last_processed_block
    /\ cpc' = "idle"
    /\ UNCHANGED <<blocks_to_scan, processed_txs, end_block, pending, initialized, since,
                   last_report, evicted, polls, first_height, last_poll, scan_error,
                   unreported, regular, scan_count>>
    /\ UNCHANGED <<agentVars, priceVars, arbVars, sentimentVars>>

\* execute, line 68, after _process_events has returned.
execute_finish ==
    /\ cpc = "events"
    /\ pending = <<>>
    /\ last_processed_block' = end_block
    /\ cpc' = "idle"
    /\ UNCHANGED <<blocks_to_scan, processed_txs, end_block, pending, initialized, since,
                   last_report, evicted, polls, first_height, last_poll, scan_error,
                   unreported, regular, scan_count>>
    /\ UNCHANGED <<agentVars, priceVars, arbVars, sentimentVars>>

\* ---------------------------------------------------------- specifications
\* One caller: every start()/stop()/assign_task() call is made after the
\* previous one returned.
InitAgent == AgentInit({"c1"}) /\ PriceIdle /\ ArbIdle /\ SentimentIdle /\ ContractIdle

NextAgent ==
    \/ \E c \in Callers :
          \/ assign_task(c)
          \/ start_call(c)
          \/ start_33(c)
          \/ start_37(c)
          \/ start_38(c)
          \/ start_39(c)
          \/ stop_call(c)
          \/ stop_44(c)
          \/ stop_45(c)
          \/ stop_46(c)
          \/ join(c)
    \/ \E t \in Threads :
          \/ loop_while(t)
          \/ loop_for(t)
          \/ loop_execute(t)
          \/ loop_sleep(t)

SpecAgent == InitAgent /\ [][NextAgent]_vars

\* Two callers: start()/stop()/assign_task() calls of different threads on
\* one agent, interleaved line by line (agent.py takes no lock).
InitAgentConc ==
    AgentInit({"c1", "c2"}) /\ PriceIdle /\ ArbIdle /\ SentimentIdle /\ ContractIdle

SpecAgentConc == InitAgentConc /\ [][NextAgent]_vars

\* A call that has begun takes its next step unless it is blocked in join().
CallerStep(c) ==
    \/ start_33(c) \/ start_37(c) \/ start_38(c) \/ start_39(c)
    \/ stop_44(c) \/ stop_45(c) \/ stop_46(c) \/ join(c)

\* A started thread keeps running its loop: every poll and every sleep ends.
LoopStep(t) == loop_while(t) \/ loop_for(t) \/ loop_execute(t) \/ loop_sleep(t)

\* The two callers under a fair scheduler. Nothing obliges a caller to make
\* a further start(), stop() or assign_task() call.
SpecAgentFair ==
    /\ InitAgentConc
    /\ [][NextAgent]_vars
    /\ \A c \in Callers : WF_vars(CallerStep(c))
    /\ \A t \in Threads : WF_vars(LoopStep(t))

\* A PriceTrackingTask polled on its own, with every threshold and direction.
InitPrice == AgentInit({"c1"}) /\ PriceInit /\ ArbIdle /\ SentimentIdle /\ ContractIdle

NextPrice == price_execute

SpecPrice == InitPrice /\ [][NextPrice]_vars

\* An ArbitrageTask polled on its own, with every threshold.
InitArb == AgentInit({"c1"}) /\ PriceIdle /\ ArbInit /\ SentimentIdle /\ ContractIdle

NextArb == arb_execute

SpecArb == InitArb /\ [][NextArb]_vars

\* A SentimentAnalysisTask polled on its own, with every threshold.
InitSentiment == AgentInit({"c1"}) /\ PriceIdle /\ ArbIdle /\ SentimentInit /\ ContractIdle

NextSentiment == sentiment_execute

SpecSentiment == InitSentiment /\ [][NextSentiment]_vars

\* A ContractMonitorTask polled on its own, with every lookback.
InitContract == AgentInit({"c1"}) /\ PriceIdle /\ ArbIdle /\ SentimentIdle /\ ContractInit

NextContract ==
    \/ execute_no_scan
    \/ execute_scan
    \/ execute_scan_fetch_fails
    \/ event_skip
    \/ event_receipt_fails
    \/ event_process
    \/ execute_finish

SpecContract == InitContract /\ [][NextContract]_vars

\* ------------------------------------------------------------ Agent claims

\* C1: stop() returns only after the scheduling loop has exited: once a
\* stop() call has returned, and until the next start() call, no _run_loop of
\* the agent is alive, so no task poll begins or is executing.
C1_StopReturnsAfterLoopExit == quiet => LiveLoops = {}

\* A stop() of a running agent that had polled tasks has returned.
C1_Witness ==
    /\ quiet
    /\ pc["c1"] = "idle"
    /\ wasRunning["c1"]
    /\ thread # 0
    /\ tstate[thread] = "dead"
    /\ poll_result # "none"

\* A stop() call made while the agent is not running is in progress.
StopOnIdle(c) == pc[c] \in {"stop_44", "stop_45", "stop_46", "join"} /\ ~wasRunning[c]

\* C2: stop() is idempotent: a stop() called on an agent that is not running
\* never blocks (the Thread it joins is dead) and no step taken while it is
\* in progress, its return included, changes the running flag (false), the
\* task list, the thread handle or the set of live loops (empty).
C2_StopIdempotent ==
    /\ [](\A c \in Callers : StopOnIdle(c) =>
             /\ ~running
             /\ LiveLoops = {}
             /\ (pc[c] = "join" => tstate[jt[c]] = "dead"))
    /\ [][\A c \in Callers : StopOnIdle(c) =>
             /\ running' = running
             /\ tasks' = tasks
             /\ thread' = thread
             /\ tstate' = tstate]_vars

\* A second stop() right after a first one has returned, the first having
\* stopped a running agent.
C2_Witness ==
    /\ pc["c1"] = "idle"
    /\ hist = <<"stop", "stop">>
    /\ ~wasRunning["c1"]
    /\ thread # 0

\* C3: for the calls of one caller, after each call returns the running
\* flag is true exactly when the last call was start(), and the agent has one
\* live loop when the flag is true and none when it is false; a start() on a
\* running agent leaves flag, thread handle, task list and live loops alone.
C3_FlagAndLoopCount ==
    /\ [](pc["c1"] = "idle" =>
             /\ running <=> (hist # <<>> /\ hist[Len(hist)] = "start")
             /\ Cardinality(LiveLoops) = IF running THEN 1 ELSE 0)
    /\ [][(pc["c1"] = "start_33" /\ running) =>
             /\ running' = running
             /\ thread' = thread
             /\ tasks' = tasks
             /\ LiveLoops' = LiveLoops]_vars

\* A start() on a running agent has returned: start(); start().
C3_Witness ==
    /\ pc["c1"] = "idle"
    /\ hist = <<"start", "start">>
    /\ running
    /\ Cardinality(LiveLoops) = 1

C17_PassPollsEachTaskInOrder ==
    /\ [](\A t \in Threads :
             /\ polled[t] = SubSeq(tasks, 1, Len(polled[t]))
             /\ Len(polled[t]) <= Len(tasks)
             /\ tstate[t] = "exec" => Len(polled[t]) < Len(tasks))
    /\ [][\A t \in Threads :
             /\ (tstate[t] = "for" /\ tstate'[t] = "sleep") => polled[t] = tasks
             /\ (tstate[t] = "exec" /\ tstate'[t] # "exec") =>
                    /\ tstate'[t] = "for"
                    /\ polled'[t] = Append(polled[t], tasks[Len(polled[t]) + 1])
             /\ (tstate[t] = "sleep" /\ tstate'[t] # "sleep") => tstate'[t] = "check"
             /\ (tstate[t] = "check" /\ tstate'[t] # "check") =>
                    tstate'[t] = (IF running THEN "for" ELSE "dead")]_vars

\* The first task of a pass raised and the loop is polling the second.
C17_Witness ==
    \E t \in Threads :
        /\ tstate[t] = "exec"
        /\ polled[t] = <<1>>
        /\ poll_result = "error"
        /\ Len(tasks) = 2

\* C18: at every moment at most one Thread object is running the agent's
\* loop, whatever the interleaving of the callers' start() and stop() calls.
C18_AtMostOneLiveLoop == Cardinality(LiveLoops) <= 1

\* C19: every stop() called on a running agent returns, whatever the other
\* caller does meanwhile.
C19_StopEventuallyReturns ==
    \A c \in Callers : (pc[c] = "stop_44" /\ wasRunning[c]) ~> (pc[c] = "idle")

\* ------------------------------------------------ PriceTrackingTask claims

\* The record of the last execute() call.
LastPoll == price_log[Len(price_log)]

\* C4: a poll whose fetched price equals the threshold exactly emits no
\* alert, whether the direction is above or below.
C4_NoAlertAtThreshold ==
    \A i \in 1..Len(price_log) :
        price_log[i].fetched = <<threshold_price>> => price_log[i].outcome # "Alert"

\* A poll fetched exactly the threshold, with a nonzero price stored before,
\* and ran to the alert condition.
C4_Witness ==
    /\ price_log # <<>>
    /\ LastPoll.fetched = <<threshold_price>>
    /\ LastPoll.prev # <<>>
    /\ LastPoll.outcome = "NoSignal"
    /\ alert_on = "below"

\* C9: after every poll whose provider fetch succeeds, the stored last
\* price equals the fetched price, whatever price was stored before.
C9_LastPriceIsFetched ==
    (price_log # <<>> /\ LastPoll.fetched # <<>>) => last_price = LastPoll.fetched

\* C10: when the provider fetch fails during a poll, the poll emits no
\* alert and the stored last price is exactly what it was before the poll.
C10_FetchFailurePreservesState ==
    (price_log # <<>> /\ LastPoll.fetched = <<>>) =>
        /\ LastPoll.outcome = "Error"
        /\ last_price = LastPoll.prev

\* A fetch failed after a price had been stored.
C10_Witness ==
    /\ price_log # <<>>
    /\ LastPoll.fetched = <<>>
    /\ LastPoll.prev # <<>>
    /\ last_price = LastPoll.prev

\* ---------------------------------------------------- ArbitrageTask claims

\* C5: a poll in which both routes return the same price emits no alert,
\* for every value of min_profit_threshold, 0 included.
C5_NoAlertOnEqualPrices ==
    \A i \in 1..Len(arb_log) :
        (arb_log[i].uni # <<>> /\ arb_log[i].uni = arb_log[i].sushi)
            => arb_log[i].outcome # "Alert"

\* C11: in a poll where both routes return prices and the prices differ, an
\* alert is emitted exactly when |A - B| / ((A + B) / 2) * 100 is at least
\* min_profit_threshold (here in tenths of a percent), and the alert names the
\* strictly cheaper route as the buy side and the other route as the sell side.
C11_AlertIffSpreadAtLeastThreshold ==
    \A i \in 1..Len(arb_log) :
        LET r == arb_log[i] IN
        (r.uni # <<>> /\ r.sushi # <<>> /\ r.uni # r.sushi) =>
            LET A == r.uni[1]
                B == r.sushi[1]
                spread == IF A > B THEN A - B ELSE B - A
            IN /\ r.outcome \in {"Alert", "NoSignal"}
               /\ r.outcome = "Alert" <=>
                      spread * 100 * 10 * 2 >= min_profit_threshold * (A + B)
               /\ r.outcome = "Alert" =>
                      IF A < B THEN r.buy = "Uniswap" /\ r.sell = "Sushiswap"
                               ELSE r.buy = "Sushiswap" /\ r.sell = "Uniswap"

\* A spread exactly at the threshold (995 against 1005 is 1.0%) has alerted,
\* naming the cheaper Uniswap route as the buy side.
C11_Witness ==
    /\ min_profit_threshold = 10
    /\ arb_log # <<>>
    /\ arb_log[Len(arb_log)].uni = <<995>>
    /\ arb_log[Len(arb_log)].sushi = <<1005>>
    /\ arb_log[Len(arb_log)].outcome = "Alert"
    /\ arb_log[Len(arb_log)].buy = "Uniswap"

\* C12: if the price fetch of either route fails in a poll, that poll emits
\* no arbitrage alert: an alert is emitted only after both routes returned a
\* price in the same poll.
C12_NoAlertOnRouteFailure ==
    \A i \in 1..Len(arb_log) :
        /\ (arb_log[i].uni = <<>> \/ arb_log[i].sushi = <<>>) => arb_log[i].outcome = "Error"
        /\ arb_log[i].outcome = "Alert" => (arb_log[i].uni # <<>> /\ arb_log[i].sushi # <<>>)

\* The Sushiswap fetch failed after Uniswap had returned a price.
C12_Witness ==
    /\ arb_log # <<>>
    /\ arb_log[Len(arb_log)].uni = <<1000>>
    /\ arb_log[Len(arb_log)].sushi = <<>>
    /\ arb_log[Len(arb_log)].outcome = "Error"

\* -------------------------------------------- SentimentAnalysisTask claims

\* C13: the first successful poll (no previous score) emits no alert, and
\* after every successful poll the stored score is the score just fetched,
\* whether or not an alert fired.
C13_ColdStartAndStore ==
    /\ \A i \in 1..Len(sentiment_log) :
           (sentiment_log[i].score # <<>> /\ sentiment_log[i].prev = <<>>)
               => sentiment_log[i].outcome = "NoSignal"
    /\ (sentiment_log # <<>> /\ sentiment_log[Len(sentiment_log)].score # <<>>)
           => last_sentiment = sentiment_log[Len(sentiment_log)].score

\* A poll with a previous score ended without an alert and stored its score.
C13_Witness ==
    /\ Len(sentiment_log) >= 2
    /\ sentiment_log[1].outcome = "NoSignal"
    /\ sentiment_log[Len(sentiment_log)].prev = <<10>>
    /\ sentiment_log[Len(sentiment_log)].score = <<0>>
    /\ sentiment_log[Len(sentiment_log)].outcome = "NoSignal"
    /\ last_sentiment = <<0>>

\* C14: on a poll with a previous score an alert is emitted exactly when
\* |current - previous| >= threshold, and an emitted alert is tagged positive
\* only when delta > 0 and negative only when delta < 0, for all thresholds.
C14_AlertIffShiftAndSign ==
    \A i \in 1..Len(sentiment_log) :
        LET r == sentiment_log[i] IN
        (r.score # <<>> /\ r.prev # <<>>) =>
            LET delta == r.score[1] - r.prev[1]
            IN /\ r.outcome = "Alert" <=>
                      (IF delta < 0 THEN -delta ELSE delta) >= sentiment_threshold
               /\ (r.outcome = "Alert" /\ r.direction = "positive") => delta > 0
               /\ (r.outcome = "Alert" /\ r.direction = "negative") => delta < 0

\* C25: a poll whose tweet fetch failed with a transport or API error ends
\* as an error: it emits no alert and leaves the stored score as it was.
C25_FetchFailureIsError ==
    \A i \in 1..Len(sentiment_log) :
        sentiment_log[i].response = "error" =>
            /\ sentiment_log[i].outcome = "Error"
            /\ i = Len(sentiment_log) => last_sentiment = sentiment_log[i].prev

\* ---------------------------------------------- ContractMonitorTask claims

\* C6: once the first poll has initialized last_processed_block, its value
\* never decreases, whatever chain heights the provider reports.
C6_WatermarkMonotonic ==
    [][initialized => last_processed_block' >= last_processed_block]_vars

C8_NoDuplicateReport == last_report # <<>> => ~last_report[1].again

\* C15: the first poll, at height h, sets last_processed_block to h - 1,
\* scans no block and reports no event; the next poll, at a height h2 > h
\* with h2 - h within the lookback, scans exactly the range [h, h2].
C15_FirstPollThenScan ==
    /\ polls = "first" =>
           /\ last_processed_block = first_height[1] - 1
           /\ last_poll[1].scan = <<>>
           /\ last_report = <<>>
    /\ (/\ polls = "second"
        /\ last_poll[1].height > first_height[1]
        /\ last_poll[1].height - first_height[1] <= blocks_to_scan)
           => last_poll[1].scan = <<first_height[1], last_poll[1].height>>

\* C20 as stated: a scanning poll scans [max(last_processed_block + 1,
\* current_height - max_lookback), current_height], at most max_lookback + 1
\* blocks, and a poll whose start is not below current_height scans nothing
\* and leaves last_processed_block and the seen-set unchanged.
C20_NoScanLeavesWatermark ==
    [][(cpc = "idle" /\ last_poll' # <<>>) =>
          LET p == last_poll'[1]
              last == IF p.before = 0 THEN p.height - 1 ELSE p.before
              start == IF last + 1 >= p.height - blocks_to_scan
                          THEN last + 1 ELSE p.height - blocks_to_scan
          IN /\ p.scan = IF start < p.height THEN <<start, p.height>> ELSE <<>>
             /\ p.scan # <<>> => p.scan[2] - p.scan[1] + 1 <= blocks_to_scan + 1
             /\ p.scan = <<>> => /\ processed_txs' = processed_txs
                                 /\ last_processed_block' = last_processed_block]_vars

\* C20, amended: the same, except that a poll that scans nothing leaves
\* last_processed_block at the value the first-run step of lines 47-48 gives
\* it: current_height - 1 when it was 0 on entry, its value on entry otherwise.
C20_ScanRange ==
    [][(cpc = "idle" /\ last_poll' # <<>>) =>
          LET p == last_poll'[1]
              last == IF p.before = 0 THEN p.height - 1 ELSE p.before
              start == IF last + 1 >= p.height - blocks_to_scan
                          THEN last + 1 ELSE p.height - blocks_to_scan
          IN /\ p.scan = IF start < p.height THEN <<start, p.height>> ELSE <<>>
             /\ p.scan # <<>> => p.scan[2] - p.scan[1] + 1 <= blocks_to_scan + 1
             /\ p.scan = <<>> => /\ processed_txs' = processed_txs
                                 /\ last_processed_block' = last]_vars

\* A poll long after the previous one scanned only the lookback window.
C20_Witness ==
    /\ last_poll # <<>>
    /\ last_poll[1].scan # <<>>
    /\ last_poll[1].before + 1 < last_poll[1].scan[1]
    /\ last_poll[1].scan[2] - last_poll[1].scan[1] = blocks_to_scan

\* C21: once a poll that scanned has ended, last_processed_block is the
\* height that poll read, also when a receipt fetch failed during the scan.
C21_WatermarkAdvancesAfterScan ==
    (cpc = "idle" /\ last_poll # <<>> /\ last_poll[1].scan # <<>>)
        => last_processed_block = last_poll[1].height

\* A scan whose receipt fetch failed has ended with the watermark advanced.
C21_Witness ==
    /\ cpc = "idle"
    /\ scan_error = "receipt"
    /\ last_poll[1].scan = <<last_poll[1].before + 1, last_poll[1].height>>
    /\ last_processed_block = last_poll[1].height
    /\ last_processed_block > last_poll[1].before

\* C22: a poll whose event fetch failed leaves last_processed_block below
\* the range it tried to scan, so that the next poll scans it again.
C22_FetchFailureKeepsWatermark ==
    (cpc = "idle" /\ scan_error = "fetch")
        => last_processed_block < last_poll[1].scan[1]

\* C23: no event of a fetched batch with a hash outside the seen-set is left
\* without its alert and its record, also when an earlier event of the batch
\* raised.
C23_EveryNewEventReported == unreported = {}

\* C24: only events whose signature is in the configured set are reported
\* or recorded in the seen-set.
C24_OnlyWatchedSignatures ==
    /\ \A tx \in processed_txs : event_signature(tx) \in monitored_events
    /\ last_report # <<>> => event_signature(last_report[1].tx) \in monitored_events

\* C26: in a regular run (heights never decrease, rise by at most the
\* lookback between polls, every fetch succeeds), once a poll has ended every
\* block above the initial watermark and up to last_processed_block was in
\* exactly one scanned range, and no block was in two.
C26_EveryBlockScannedOnce ==
    (regular /\ cpc = "idle" /\ first_height # <<>>) =>
        \A b \in Heights :
            /\ scan_count[b] <= 1
            /\ (first_height[1] - 1 < b /\ b <= last_processed_block) => scan_count[b] = 1

====
